---- MODULE Spec2Model ----
(***************************************************************************)
(* Model of the scraping service: the job orchestrator (JobService), the   *)
(* website-policy endpoints and the persisted tables they read and write.  *)
(* Every request runs in its own ORM session: a session keeps a snapshot   *)
(* of the rows it loaded, changes them in memory and writes, at commit,    *)
(* only the attributes whose value differs from the loaded one.            *)
(***************************************************************************)
EXTENDS Integers, FiniteSets, Sequences, TLC

\* ---------------------------------------------------------------- bounds
MaxJobs == 1
NumProcs == 2
MaxTime == 2
MaxCount == 2
MaxResults == 1
MaxUpdates == 1
MaxConfigs == 2
NumNames == 2
NumDomains == 2
MaxElems == 3
MaxKids == 1
MaxKept == 2
MaxAge == 61
MaxUrls == 3

\* ---------------------------------------------------------------- values
NoTime == 0
DefaultMaxRetries == 3
ImageLimit == 10
LinkLimit == 20
RetentionDays == 30
NoConfig == 0

JobIds == 1..MaxJobs
Procs == 1..NumProcs
ConfigIds == 1..MaxConfigs
Names == 1..NumNames
Domains == 1..NumDomains
Times == 1..MaxTime

JobStatus == {"pending", "running", "completed", "failed", "cancelled"}

NoMsg == "null"
Omitted == "omitted"
CronInputs == {Omitted, NoMsg, "", "0 2 * * *"}

\* ScrapingMethodEnum, and the value `x or {}` passes for an unset dict.
Methods == {"requests", "selenium", "playwright", "scrapy"}
EmptyDict == "{}"

VARIABLES
    jobs,       \* table scraping_jobs: id -> row
    results,    \* table scraped_data: set of rows
    configs,    \* table website_configs: id -> row
    now,        \* datetime.utcnow()
    updates,    \* number of requests to the update endpoint so far
    exec,       \* per worker: the execute_job call it is in
    req,        \* per worker: the website-policy request it is in
    page,       \* the document handed to the content extractor, and its output
    seq,        \* the id sequences of scraping_jobs and scraped_data: last id issued
    bulk,       \* the process_bulk_urls task: its position, progress and jobs
    fetch       \* the scraping engine's scrape call: strategy, browser, outcome

vars == <<jobs, results, configs, now, updates, exec, req, page, seq, bulk, fetch>>

dbvars == <<jobs, results, configs>>

\* ---------------------------------------------------------------- rows
ScrapingJob(d) ==
    [status |-> "pending",
     retry_count |-> 0,
     max_retries |-> d.max_retries,
     scraped_data_count |-> 0,
     error_message |-> NoMsg,
     started_at |-> NoTime,
     completed_at |-> NoTime,
     is_recurring |-> d.is_recurring,
     cron_expression |-> IF d.cron_expression = Omitted THEN NoMsg ELSE d.cron_expression,
     website_config_id |-> d.website_config_id,
     method |-> d.method,
     headers |-> d.headers,
     selectors |-> d.selectors,
     cookies |-> d.cookies,
     user_agent |-> d.user_agent]

ScrapedDataWith(j, t, code) ==
    [id |-> seq.results + 1, job_id |-> j, created_at |-> t, status_code |-> code]

\* The result of a fetch that was answered 200.
ScrapedData(j, t) == ScrapedDataWith(j, t, 200)

WebsiteConfig(n, d) ==
    [name |-> n, domain |-> d, failure_count |-> 0, last_successful_scrape |-> NoTime,
     default_method |-> "requests",
     default_headers |-> NoMsg,
     default_selectors |-> NoMsg,
     default_cookies |-> NoMsg,
     custom_user_agents |-> <<>>,
     requires_js |-> FALSE,
     is_active |-> TRUE]

IdleExec == [pc |-> "idle", job |-> 0, ret |-> "none", nfetch |-> 0]

IdleReq == [pc |-> "idle", ret |-> "none"]

IdleBulk == [pc |-> "idle"]

IdleFetch == [pc |-> "idle"]

\* A session's commit: the row in the table, with the attributes the session
\* changed (mem differs from what it loaded) overwritten, the others left alone.
Flush(row, loaded, mem) ==
    [f \in DOMAIN row |-> IF mem[f] # loaded[f] THEN mem[f] ELSE row[f]]

\* ---------------------------------------------------------------- create_job
\* The validator of cron_expression is declared without always=True: it runs
\* on a value that was supplied (null included), not on an omitted field.
ValidatorRuns(cron) == cron # Omitted

validate_cron_expression(v, is_recurring) ==
    ~(is_recurring /\ v \in {NoMsg, ""})

ScrapingJobCreateOk(d) ==
    ValidatorRuns(d.cron_expression)
        => validate_cron_expression(d.cron_expression, d.is_recurring)

JobInputs ==
    [max_retries : {0, 1, DefaultMaxRetries},
     is_recurring : BOOLEAN,
     cron_expression : CronInputs,
     website_config_id : {NoConfig} \cup ConfigIds,
     method : {"requests"},
     headers : {NoMsg},
     selectors : {NoMsg},
     cookies : {NoMsg},
     user_agent : {NoMsg}]

PlainJobInputs ==
    {d \in JobInputs : ~d.is_recurring /\ d.cron_expression = Omitted}

\* Requests that set the fetch parameters of the job, linked to a policy.
ParamJobInputs ==
    [max_retries : {DefaultMaxRetries},
     is_recurring : {FALSE},
     cron_expression : {Omitted},
     website_config_id : ConfigIds,
     method : {"requests", "selenium"},
     headers : {NoMsg, "own"},
     selectors : {NoMsg, "own"},
     cookies : {NoMsg, "own"},
     user_agent : {NoMsg, "own"}]

\* The policy's defaults are copied into the new job (job_service.py 52-65).
ApplyDefaults(job, cfg) ==
    LET j1 == IF job.headers = NoMsg /\ cfg.default_headers # NoMsg
              THEN [job EXCEPT !.headers = cfg.default_headers] ELSE job
        j2 == IF j1.selectors = NoMsg /\ cfg.default_selectors # NoMsg
              THEN [j1 EXCEPT !.selectors = cfg.default_selectors] ELSE j1
        j3 == IF j2.cookies = NoMsg /\ cfg.default_cookies # NoMsg
              THEN [j2 EXCEPT !.cookies = cfg.default_cookies] ELSE j2
        j4 == IF j3.user_agent = NoMsg /\ cfg.custom_user_agents # <<>>
              THEN [j3 EXCEPT !.user_agent = cfg.custom_user_agents[1]] ELSE j3
    IN IF cfg.requires_js /\ j4.method = "requests"
       THEN [j4 EXCEPT !.method = cfg.default_method] ELSE j4

\* create_job, while the ids issued stay within cap.
CreateJobWithin(cap, d) ==
    /\ seq.jobs < cap
    /\ ScrapingJobCreateOk(d)
    /\ d.website_config_id # NoConfig => d.website_config_id \in DOMAIN configs
    /\ seq' = [seq EXCEPT !.jobs = @ + 1]
    /\ LET id == seq.jobs + 1
           row == IF d.website_config_id # NoConfig
                  THEN ApplyDefaults(ScrapingJob(d), configs[d.website_config_id])
                  ELSE ScrapingJob(d)
       IN jobs' = [j \in DOMAIN jobs \cup {id} |->
                      IF j = id THEN row ELSE jobs[j]]
    /\ UNCHANGED <<results, configs, now, updates, exec, req, page, bulk, fetch>>

CreateJob(d) == CreateJobWithin(MaxJobs, d)

\* ---------------------------------------------------------------- update_job
\* ScrapingJobUpdate carries status, error_message and scraped_data_count, each
\* optional; update_job sets the fields that were given, whatever the row holds.
UpdateInputs ==
    [given : {{"status"}},
     status : JobStatus,
     error_message : {"error"},
     scraped_data_count : {0}]

\* update_data = job_update.dict(exclude_unset=True); setattr for each.
ApplyUpdate(row, u) ==
    [f \in DOMAIN row |-> IF f \in u.given THEN u[f] ELSE row[f]]

UpdateJob(j, u) ==
    /\ j \in DOMAIN jobs
    /\ jobs' = [jobs EXCEPT ![j] = ApplyUpdate(@, u)]
    /\ updates < MaxUpdates
    /\ updates' = updates + 1
    /\ UNCHANGED <<results, configs, now, exec, req, page, seq, bulk, fetch>>

\* ---------------------------------------------------------------- execute_job
\* get_job, then the status check (job_service.py 168-173).
MayExecuteAlsoFailed(row) == row.status \in {"pending", "failed"}

MayExecute(row) == row.status = "pending"

\* The call, while the results stored so far stay within cap.
ExecLoadWithin(cap, p, j) ==
    /\ exec[p].pc = "idle"
    /\ j \in DOMAIN jobs
    /\ MayExecute(jobs[j]) =>
            jobs[j].retry_count < MaxCount /\ seq.results < cap
    /\ IF MayExecute(jobs[j])
       THEN exec' = [exec EXCEPT ![p] =
                [pc |-> "loaded", job |-> j, ret |-> "none", nfetch |-> 0,
                 snap |-> jobs[j], mem |-> jobs[j]]]
       ELSE exec' = [exec EXCEPT ![p] =
                [pc |-> "done", job |-> j, ret |-> "invalid_state", nfetch |-> 0]]
    /\ UNCHANGED <<jobs, results, configs, now, updates, req, page, seq, bulk, fetch>>

ExecLoad(p, j) == ExecLoadWithin(MaxResults, p, j)

\* update_job(job_id, status=RUNNING): set on the session's object, commit.
ExecMarkRunning(p) ==
    /\ exec[p].pc = "loaded"
    /\ LET e == exec[p]
           mem == [e.mem EXCEPT !.status = "running"]
       IN /\ jobs' = [jobs EXCEPT ![e.job] = Flush(@, e.snap, mem)]
          /\ exec' = [exec EXCEPT ![p] =
                [e EXCEPT !.pc = "marked", !.snap = mem, !.mem = mem]]
    /\ UNCHANGED <<results, configs, now, updates, req, page, seq, bulk, fetch>>

\* update_job's refresh reloads the row; then status and started_at are set
\* on the object only (job_service.py 137, 177-178).
ExecRefresh(p) ==
    /\ exec[p].pc = "marked"
    /\ LET e == exec[p]
           row == jobs[e.job]
       IN exec' = [exec EXCEPT ![p] =
                [e EXCEPT !.pc = "refreshed", !.snap = row,
                          !.mem = [row EXCEPT !.status = "running",
                                              !.started_at = now]]]
    /\ UNCHANGED <<jobs, results, configs, now, updates, req, page, seq, bulk, fetch>>

\* job.website_config is loaded on first use, then the engine is called.
LoadedConfig(row) ==
    IF row.website_config_id \in DOMAIN configs
    THEN configs[row.website_config_id]
    ELSE WebsiteConfig(0, 0)

\* What scraping_engine.scrape is called with (job_service.py 182-201).
ScrapeCall(job) ==
    [method |-> job.method,
     headers |-> IF job.headers = NoMsg THEN EmptyDict ELSE job.headers,
     selectors |-> IF job.selectors = NoMsg THEN EmptyDict ELSE job.selectors,
     cookies |-> IF job.cookies = NoMsg THEN EmptyDict ELSE job.cookies,
     user_agent |-> job.user_agent]

ExecFetch(p) ==
    /\ exec[p].pc = "refreshed"
    /\ LET e == exec[p]
       IN /\ exec' = [exec EXCEPT ![p] =
                [pc |-> "fetching", job |-> e.job, ret |-> "none",
                 nfetch |-> e.nfetch + 1, snap |-> e.snap, mem |-> e.mem,
                 cfg |-> LoadedConfig(e.mem), call |-> ScrapeCall(e.mem)]]
    /\ UNCHANGED <<jobs, results, configs, now, updates, req, page, seq, bulk, fetch>>

OnSuccessJobKeepsMessage(mem, t) ==
    [mem EXCEPT !.status = "completed", !.completed_at = t,
                !.scraped_data_count = 1]

\* The rows as the success branch leaves them (job_service.py 204-231).
OnSuccessJob(mem, t) ==
    [mem EXCEPT !.status = "completed", !.completed_at = t,
                !.scraped_data_count = 1, !.error_message = NoMsg]

OnSuccessConfig(cfg, t) ==
    [cfg EXCEPT !.last_successful_scrape = t, !.failure_count = 0]

OnFailureJobStaysRunning(mem, t) ==
    [mem EXCEPT !.completed_at = t, !.error_message = "error",
                !.retry_count = @ + 1]

OnFailureJobNoRetryCount(mem, t) ==
    [mem EXCEPT !.status = "failed", !.completed_at = t,
                !.error_message = "error"]

\* The rows as the except branch leaves them (job_service.py 238-245).
OnFailureJob(mem, t) ==
    [mem EXCEPT !.status = "failed", !.completed_at = t,
                !.error_message = "error",
                !.retry_count = @ + 1]

OnFailureConfig(cfg) ==
    [cfg EXCEPT !.failure_count = @ + 1]

AfterFailureRetries(e, mem) ==
    IF mem.retry_count < mem.max_retries
    THEN [pc |-> "refreshed", job |-> e.job, ret |-> "none", nfetch |-> e.nfetch,
          snap |-> mem, mem |-> mem]
    ELSE [pc |-> "done", job |-> e.job, ret |-> "exec_failed", nfetch |-> e.nfetch]

\* Where the call goes after the except branch committed: it raises.
AfterFailure(e, mem) ==
    [pc |-> "done", job |-> e.job, ret |-> "exec_failed", nfetch |-> e.nfetch]

Linked(mem) == mem.website_config_id \in DOMAIN configs

CommitConfig(e, cfgmem) ==
    IF Linked(e.mem)
    THEN configs' = [configs EXCEPT ![e.mem.website_config_id] =
                        Flush(@, e.cfg, cfgmem)]
    ELSE UNCHANGED configs

\* scrape returned its result, whose status_code is code: the result is
\* stored as it came and the job completes (job_service.py 204-232).
ExecSucceedWith(p, code) ==
    /\ exec[p].pc = "fetching"
    /\ LET e == exec[p]
           mem == OnSuccessJob(e.mem, now)
       IN /\ results' = results \cup {ScrapedDataWith(e.job, now, code)}
          /\ seq' = [seq EXCEPT !.results = @ + 1]
          /\ jobs' = [jobs EXCEPT ![e.job] = Flush(@, e.snap, mem)]
          /\ CommitConfig(e, OnSuccessConfig(e.cfg, now))
          /\ exec' = [exec EXCEPT ![p] =
                [pc |-> "done", job |-> e.job, ret |-> "ok", nfetch |-> e.nfetch]]
    /\ UNCHANGED <<now, updates, req, page, bulk, fetch>>

ExecSucceed(p) == ExecSucceedWith(p, 200)

ExecFail(p) ==
    /\ exec[p].pc = "fetching"
    /\ LET e == exec[p]
           mem == OnFailureJob(e.mem, now)
       IN /\ jobs' = [jobs EXCEPT ![e.job] = Flush(@, e.snap, mem)]
          /\ CommitConfig(e, OnFailureConfig(e.cfg))
          /\ exec' = [exec EXCEPT ![p] = AfterFailure(e, mem)]
    /\ UNCHANGED <<results, now, updates, req, page, seq, bulk, fetch>>

\* What a response or a failed request looks like to _scrape_with_requests.
StatusCodes == {200, 404, 500}

\* A response with its status, or a timeout or other transport error.
FetchOutcomes ==
    {[raises |-> FALSE, status_code |-> c] : c \in StatusCodes}
        \cup {[raises |-> TRUE, status_code |-> 0]}

\* What makes _scrape_with_requests raise: a timeout or another exception of
\* the request, never the status of a response (scraping_engine.py 58-81).
FetchRaisesOnErrorStatus(outcome) == outcome.raises \/ outcome.status_code >= 400

FetchRaises(outcome) == outcome.raises

\* The passive-HTTP request of the call is answered, or fails in transport.
ExecResponse(p, outcome) ==
    /\ exec[p].pc = "fetching"
    /\ "outcome" \notin DOMAIN exec[p]
    /\ exec[p].call.method = "requests"
    /\ exec' = [exec EXCEPT ![p] =
            [f \in DOMAIN exec[p] \cup {"outcome"} |->
                IF f = "outcome" THEN outcome ELSE exec[p][f]]]
    /\ UNCHANGED <<jobs, results, configs, now, updates, req, page, seq, bulk, fetch>>

\* execute_job goes on from the scrape call: the except branch when it
\* raised, the success branch with the returned result otherwise.
ExecRecord(p) ==
    /\ exec[p].pc = "fetching"
    /\ "outcome" \in DOMAIN exec[p]
    /\ IF FetchRaises(exec[p].outcome)
       THEN ExecFail(p)
       ELSE ExecSucceedWith(p, exec[p].outcome.status_code)

\* The outcome could not be recorded: the commit of the except branch raises
\* (after a fetch error, or after the commit of the success branch raised
\* and brought the call there); the outer handler rolls back and raises
\* (job_service.py 247, 253-256).
ExecRecordError(p) ==
    /\ exec[p].pc = "fetching"
    /\ exec' = [exec EXCEPT ![p] =
            [pc |-> "done", job |-> exec[p].job, ret |-> "exec_failed",
             nfetch |-> exec[p].nfetch]]
    /\ UNCHANGED <<jobs, results, configs, now, updates, req, page, seq, bulk, fetch>>

\* ---------------------------------------------------------------- queries
\* get_failed_jobs_for_retry (job_service.py 267-279), as the set of ids.
RetryEligibleUpTo(row) ==
    row.status = "failed" /\ row.retry_count <= row.max_retries

RetryEligible(row) ==
    row.status = "failed" /\ row.retry_count < row.max_retries

GetFailedJobsForRetry(p) ==
    /\ exec[p].pc = "idle"
    /\ exec' = [exec EXCEPT ![p] =
            [pc |-> "done", job |-> 0, ret |-> "list", nfetch |-> 0,
             ids |-> {j \in DOMAIN jobs : RetryEligible(jobs[j])}]]
    /\ UNCHANGED <<jobs, results, configs, now, updates, req, page, seq, bulk, fetch>>

\* The call returns (or raises) to its caller; the worker is free again.
Return(p) ==
    /\ exec[p].pc = "done"
    /\ exec' = [exec EXCEPT ![p] = IdleExec]
    /\ UNCHANGED <<jobs, results, configs, now, updates, req, page, seq, bulk, fetch>>

Tick ==
    /\ now < MaxTime
    /\ now' = now + 1
    /\ UNCHANGED <<jobs, results, configs, updates, exec, req, page, seq, bulk, fetch>>

\* ---------------------------------------------------------------- website policies
NotGiven == 0

\* update_data without name and domain: none, or one of the default columns.
NoFields == [f \in {} |-> NoMsg]

DefaultUpdates ==
    {[f \in {"default_headers"} |-> v] : v \in {NoMsg, "v1"}}
    \cup {[f \in {"default_selectors"} |-> v] : v \in {NoMsg, "v1"}}
    \cup {[f \in {"default_cookies"} |-> v] : v \in {NoMsg, "v1"}}
    \cup {[f \in {"custom_user_agents"} |-> v] : v \in {<<>>, <<"ua1">>}}
    \cup {[f \in {"requires_js"} |-> v] : v \in BOOLEAN}
    \cup {[f \in {"default_method"} |-> v] : v \in {"requests", "selenium"}}

SameNameOrDomain(n, d) ==
    {c \in DOMAIN configs : configs[c].name = n \/ configs[c].domain = d}

\* The table's own constraint: name is declared unique, domain is not
\* (models/website_config.py 11-12).
UniqueViolation(c, row) ==
    \E o \in DOMAIN configs : o # c /\ configs[o].name = row.name

\* create_website_config, up to the check of the existing row
\* (website_configs.py 26-38). scalar_one_or_none raises when more than one
\* row matches; the handler turns that into a 500.
ConfigCreateCheck(p, n, d) ==
    /\ req[p].pc = "idle"
    /\ Cardinality(DOMAIN configs) < MaxConfigs \/ SameNameOrDomain(n, d) # {}
    /\ LET existing == SameNameOrDomain(n, d)
           out == IF Cardinality(existing) > 1 THEN "error500"
                  ELSE IF existing # {} THEN "conflict"
                  ELSE "none"
       IN req' = [req EXCEPT ![p] =
                [pc |-> IF out = "none" THEN "adding" ELSE "done",
                 kind |-> "create", ret |-> out, id |-> 0,
                 name |-> n, domain |-> d]]
    /\ UNCHANGED <<jobs, results, configs, now, updates, exec, page, seq, bulk, fetch>>

\* db.add(config); commit (website_configs.py 67-68).
ConfigCreateCommit(p) ==
    /\ req[p].pc = "adding"
    /\ LET r == req[p]
           id == Cardinality(DOMAIN configs) + 1
           row == WebsiteConfig(r.name, r.domain)
       IN IF UniqueViolation(id, row)
          THEN /\ req' = [req EXCEPT ![p] = [r EXCEPT !.pc = "done", !.ret = "error500"]]
               /\ UNCHANGED configs
          ELSE /\ req' = [req EXCEPT ![p] = [r EXCEPT !.pc = "done", !.ret = "ok", !.id = id]]
               /\ configs' = [c \in DOMAIN configs \cup {id} |->
                                IF c = id THEN row ELSE configs[c]]
    /\ UNCHANGED <<jobs, results, now, updates, exec, page, seq, bulk, fetch>>

\* update_website_config: the row is read (website_configs.py 155-161).
ConfigUpdateLoad(p, c, n, d, u) ==
    /\ req[p].pc = "idle"
    /\ IF c \in DOMAIN configs
       THEN req' = [req EXCEPT ![p] =
                [pc |-> "check_name", kind |-> "update", ret |-> "none", id |-> c,
                 name |-> n, domain |-> d, fields |-> u, snap |-> configs[c]]]
       ELSE req' = [req EXCEPT ![p] =
                [pc |-> "done", kind |-> "update", ret |-> "not_found", id |-> c,
                 name |-> n, domain |-> d]]
    /\ UNCHANGED <<jobs, results, configs, now, updates, exec, page, seq, bulk, fetch>>

\* The name is looked up when it is given and differs (website_configs.py 166-172).
ConfigUpdateCheckName(p) ==
    /\ req[p].pc = "check_name"
    /\ LET r == req[p]
           taken == r.name # NotGiven /\ r.name # r.snap.name
                    /\ \E o \in DOMAIN configs : configs[o].name = r.name
       IN req' = [req EXCEPT ![p] =
                IF taken THEN [r EXCEPT !.pc = "done", !.ret = "conflict"]
                ELSE [r EXCEPT !.pc = "check_domain"]]
    /\ UNCHANGED <<jobs, results, configs, now, updates, exec, page, seq, bulk, fetch>>

\* The domain is looked up when it is given and differs (website_configs.py 174-180).
ConfigUpdateCheckDomain(p) ==
    /\ req[p].pc = "check_domain"
    /\ LET r == req[p]
           asked == r.domain # NotGiven /\ r.domain # r.snap.domain
           found == {o \in DOMAIN configs : configs[o].domain = r.domain}
       IN req' = [req EXCEPT ![p] =
                IF asked /\ Cardinality(found) > 1
                THEN [r EXCEPT !.pc = "done", !.ret = "error500"]
                ELSE IF asked /\ found # {}
                THEN [r EXCEPT !.pc = "done", !.ret = "conflict"]
                ELSE [r EXCEPT !.pc = "writing"]]
    /\ UNCHANGED <<jobs, results, configs, now, updates, exec, page, seq, bulk, fetch>>

\* setattr for each given field, then commit (website_configs.py 183-189).
ConfigUpdateCommit(p) ==
    /\ req[p].pc = "writing"
    /\ LET r == req[p]
           named == [r.snap EXCEPT
                     !.name = IF r.name = NotGiven THEN @ ELSE r.name,
                     !.domain = IF r.domain = NotGiven THEN @ ELSE r.domain]
           mem == [f \in DOMAIN named |->
                     IF f \in DOMAIN r.fields THEN r.fields[f] ELSE named[f]]
           row == Flush(configs[r.id], r.snap, mem)
       IN IF mem.name # r.snap.name /\ UniqueViolation(r.id, row)
          THEN /\ req' = [req EXCEPT ![p] = [r EXCEPT !.pc = "done", !.ret = "error500"]]
               /\ UNCHANGED configs
          ELSE /\ req' = [req EXCEPT ![p] = [r EXCEPT !.pc = "done", !.ret = "ok"]]
               /\ configs' = [configs EXCEPT ![r.id] = row]
    /\ UNCHANGED <<jobs, results, now, updates, exec, page, seq, bulk, fetch>>

ConfigReturn(p) ==
    /\ req[p].pc = "done"
    /\ req' = [req EXCEPT ![p] = IdleReq]
    /\ UNCHANGED <<jobs, results, configs, now, updates, exec, page, seq, bulk, fetch>>

\* ---------------------------------------------------------------- upkeep
DeleteJobKeepsResults(p, j) ==
    /\ exec[p].pc = "idle"
    /\ IF j \in DOMAIN jobs
       THEN /\ jobs' = [k \in DOMAIN jobs \ {j} |-> jobs[k]]
            /\ exec' = [exec EXCEPT ![p] =
                    [pc |-> "done", job |-> j, ret |-> "deleted", nfetch |-> 0]]
       ELSE /\ UNCHANGED jobs
            /\ exec' = [exec EXCEPT ![p] =
                    [pc |-> "done", job |-> j, ret |-> "not_found", nfetch |-> 0]]
    /\ UNCHANGED <<results, configs, now, updates, req, page, seq, bulk, fetch>>

\* delete_job: the job goes, and the cascade of the relationship takes its
\* results with it; an unknown id is answered False (job_service.py 146-163).
DeleteJob(p, j) ==
    /\ exec[p].pc = "idle"
    /\ IF j \in DOMAIN jobs
       THEN /\ jobs' = [k \in DOMAIN jobs \ {j} |-> jobs[k]]
            /\ results' = {r \in results : r.job_id # j}
            /\ exec' = [exec EXCEPT ![p] =
                    [pc |-> "done", job |-> j, ret |-> "deleted", nfetch |-> 0]]
       ELSE /\ UNCHANGED <<jobs, results>>
            /\ exec' = [exec EXCEPT ![p] =
                    [pc |-> "done", job |-> j, ret |-> "not_found", nfetch |-> 0]]
    /\ UNCHANGED <<configs, now, updates, req, page, seq, bulk, fetch>>

\* test_website_config: the policy is read (website_configs.py 251-258).
ConfigTestLoad(p, c) ==
    /\ req[p].pc = "idle"
    /\ IF c \in DOMAIN configs
       THEN req' = [req EXCEPT ![p] =
                [pc |-> "testing", kind |-> "test", ret |-> "none", id |-> c,
                 nfetch |-> 0, snap |-> configs[c]]]
       ELSE req' = [req EXCEPT ![p] =
                [pc |-> "done", kind |-> "test", ret |-> "not_found", id |-> c,
                 nfetch |-> 0]]
    /\ UNCHANGED <<jobs, results, configs, now, updates, exec, page, seq, bulk, fetch>>

ConfigTestScrapeCountsFailure(p) ==
    /\ req[p].pc = "testing"
    /\ \E ok \in BOOLEAN :
        /\ req' = [req EXCEPT ![p] =
                [pc |-> "done", kind |-> "test", id |-> req[p].id,
                 ret |-> IF ok THEN "test_success" ELSE "test_error",
                 nfetch |-> req[p].nfetch + 1]]
        /\ configs' = IF ok THEN configs
                      ELSE [configs EXCEPT ![req[p].id].failure_count = @ + 1]
    /\ UNCHANGED <<jobs, results, now, updates, exec, page, seq, bulk, fetch>>

\* One scrape of the base url; its result or its error is the answer
\* (website_configs.py 260-299).
ConfigTestScrape(p) ==
    /\ req[p].pc = "testing"
    /\ \E ok \in BOOLEAN :
        req' = [req EXCEPT ![p] =
                [pc |-> "done", kind |-> "test", id |-> req[p].id,
                 ret |-> IF ok THEN "test_success" ELSE "test_error",
                 nfetch |-> req[p].nfetch + 1]]
    /\ UNCHANGED <<jobs, results, configs, now, updates, exec, page, seq, bulk, fetch>>

ExpiredAnyStatus(job, cutoff) ==
    job.completed_at # NoTime /\ job.completed_at < cutoff

\* The rows the two DELETE statements of cleanup_old_data match
\* (tasks.py 110-123); a NULL completed_at compares as unknown.
Expired(job, cutoff) ==
    /\ job.status = "completed"
    /\ job.completed_at # NoTime
    /\ job.completed_at < cutoff

Stale(r, cutoff) == r.created_at < cutoff

\* cleanup_old_data: both deletes in one transaction. The foreign key of
\* scraped_data.job_id refuses the delete of a job that still has a result:
\* the task raises and nothing is committed.
CleanupOldData(p) ==
    /\ exec[p].pc = "idle"
    /\ LET cutoff == now - RetentionDays
           old_results == {r \in results : Stale(r, cutoff)}
           old_jobs == {j \in DOMAIN jobs : Expired(jobs[j], cutoff)}
           refused == \E r \in results \ old_results : r.job_id \in old_jobs
       IN IF refused
          THEN /\ UNCHANGED <<jobs, results>>
               /\ exec' = [exec EXCEPT ![p] =
                      [pc |-> "done", job |-> 0, ret |-> "cleanup_failed", nfetch |-> 0]]
          ELSE /\ results' = results \ old_results
               /\ jobs' = [k \in DOMAIN jobs \ old_jobs |-> jobs[k]]
               /\ exec' = [exec EXCEPT ![p] =
                      [pc |-> "done", job |-> 0, ret |-> "cleaned", nfetch |-> 0,
                       swept_jobs |-> old_jobs, swept_results |-> old_results]]
    /\ UNCHANGED <<configs, now, updates, req, page, seq, bulk, fetch>>

\* The retention period passes.
Later ==
    /\ now + RetentionDays <= MaxAge
    /\ now' = now + RetentionDays
    /\ UNCHANGED <<jobs, results, configs, updates, exec, req, page, seq, bulk, fetch>>

\* ---------------------------------------------------------------- content extractor
\* A document is its body: a sequence of elements, each holding a sequence of
\* nodes (a text, <img src>, <a href>). A node stands for n such nodes in a row.
Url == "https://x.test/p"

Nodes ==
    [tag : {"text"}, val : {"Hello"}, n : {1}]
    \cup [tag : {"img"}, val : {"", "/i.png"}, n : {1, ImageLimit}]
    \cup [tag : {"a"}, val : {"#top", "/x"}, n : {1, LinkLimit}]

SeqsUpTo(S, k) == UNION {[1..m -> S] : m \in 0..k}

Elements == [tag : {"article", "main", "nav", "div"}, kids : SeqsUpTo(Nodes, MaxKids)]

Docs == SeqsUpTo(Elements, MaxElems)

NoSelectors == [k \in {} |-> ""]

SelectorMaps ==
    {NoSelectors} \cup {[k \in {"field"} |-> sel] : sel \in {"article", "nav", "div"}}

NoPage == [pc |-> "none"]

RECURSIVE Flat(_)
Flat(ss) == IF ss = <<>> THEN <<>> ELSE Head(ss) \o Flat(Tail(ss))

\* The nodes below an element, in document order.
Leaves(el) ==
    Flat([i \in DOMAIN el.kids |->
            [k \in 1..el.kids[i].n |-> [tag |-> el.kids[i].tag, val |-> el.kids[i].val]]])

find_all(soup, tag) ==
    SelectSeq(Flat([i \in DOMAIN soup |-> Leaves(soup[i])]), LAMBDA x : x.tag = tag)

\* get_text(strip=True): the non-empty texts below the element.
get_text(el) ==
    LET t == SelectSeq(Leaves(el), LAMBDA x : x.tag = "text")
    IN [i \in DOMAIN t |-> t[i].val]

select(soup, sel) == SelectSeq(soup, LAMBDA el : el.tag = sel)

content_selectors ==
    <<"article", "main", ".content", "#content",
      ".post-content", ".entry-content", ".article-content">>

\* The loop over content_selectors: the text of the first element that
\* matches, and the loop ends there (scraping_engine.py 206-211).
RECURSIVE FirstMatch(_, _)
FirstMatch(soup, i) ==
    IF i > Len(content_selectors) THEN <<>>
    ELSE IF select(soup, content_selectors[i]) # <<>>
         THEN get_text(select(soup, content_selectors[i])[1])
         ELSE FirstMatch(soup, i + 1)

\* body([...]) with decompose(): the subtrees leave the parsed document.
Decomposed == {"script", "style", "nav", "header", "footer"}

decompose(soup) == SelectSeq(soup, LAMBDA el : el.tag \notin Decomposed)

body_text(soup) == Flat([i \in DOMAIN soup |-> get_text(soup[i])])

urljoin(url, ref) == [base |-> url, ref |-> ref]

FirstN(s, k) == SubSeq(s, 1, IF Len(s) < k THEN Len(s) ELSE k)

StructuredData(soup, selectors) ==
    LET keys == {k \in DOMAIN selectors : select(soup, selectors[k]) # <<>>}
        data == [k \in keys |->
                    LET elements == select(soup, selectors[k])
                    IN [many |-> Len(elements) # 1,
                        texts |-> [i \in DOMAIN elements |-> get_text(elements[i])]]]
    IN [null |-> keys = {}, map |-> data]

Urls(url, nodes) == [i \in DOMAIN nodes |-> urljoin(url, nodes[i].val)]

\* len(main_content.split()): get_text joins the texts without a separator
\* and no text of Nodes holds a blank.
WordCount(texts) == IF texts = <<>> THEN 0 ELSE 1

extract_content(soup, url, selectors) ==
    LET first == FirstMatch(soup, 1)
        fallback == first = <<>>
        left == IF fallback THEN decompose(soup) ELSE soup
        main_content == IF fallback THEN body_text(left) ELSE first
        images == find_all(left, "img")
        links == find_all(left, "a")
    IN [content |-> main_content,
        structured_data |-> StructuredData(left, selectors),
        word_count |-> WordCount(main_content),
        image_count |-> Len(images),
        link_count |-> Len(links),
        extracted_images |->
            Urls(url, SelectSeq(FirstN(images, ImageLimit), LAMBDA x : x.val # "")),
        extracted_links |->
            Urls(url, SelectSeq(FirstN(links, LinkLimit),
                                LAMBDA x : x.val # "" /\ x.val # "#top"))]

ExtractContent ==
    /\ page.pc = "fetched"
    /\ page' = [pc |-> "extracted", doc |-> page.doc, selectors |-> page.selectors,
                out |-> extract_content(page.doc, Url, page.selectors)]
    /\ UNCHANGED <<jobs, results, configs, now, updates, exec, req, seq, bulk, fetch>>

\* ---------------------------------------------------------------- missing references
\* The exception classes in play; the HTTPException ones carry their status.
HttpExceptions == {"HTTP400", "HTTP404", "HTTP500"}

IsA(exc, class) ==
    \/ class = "Exception"
    \/ class = exc
    \/ class = "HTTPException" /\ exc \in HttpExceptions

\* except <catches>: raise <raises>, "same" for a bare raise.
ReraiseHttp == [catches |-> "HTTPException", raises |-> "same"]
WrapScraping == [catches |-> "Exception", raises |-> "ScrapingException"]
Wrap500 == [catches |-> "Exception", raises |-> "HTTP500"]
ValueErrorTo400 == [catches |-> "ValueError", raises |-> "HTTP400"]

\* What leaves a try statement when exc is raised in its body: the first
\* clause that catches it decides.
RECURSIVE Through(_, _)
Through(clauses, exc) ==
    IF clauses = <<>> THEN exc
    ELSE IF IsA(exc, Head(clauses).catches)
         THEN IF Head(clauses).raises = "same" THEN exc ELSE Head(clauses).raises
         ELSE Through(Tail(clauses), exc)

\* What leaves the endpoint: the try statements around the raise, innermost first.
RECURSIVE Surface(_, _)
Surface(tries, exc) ==
    IF tries = <<>> THEN exc
    ELSE Surface(Tail(tries), Through(Head(tries), exc))

\* The application's exception handlers (core/exceptions.py 27-71).
Answer(exc) ==
    CASE exc = "HTTP404" -> "not_found"
      [] exc = "HTTP400" -> "bad_request"
      [] exc = "HTTP500" -> "error500"
      [] exc = "ScrapingException" -> "bad_request"
      [] OTHER -> "error500"

JobOps == {"get_job", "update_job", "delete_job", "execute_job", "create_job"}

ConfigOps == {"get_website_config", "update_website_config",
              "delete_website_config", "toggle_config_active"}

\* What each operation raises where it finds the row missing: the service's
\* get/update/delete answer None or False and the endpoint raises the 404;
\* execute_job and create_job raise ValueError inside the service's try.
RaisedWhenMissing(op) ==
    IF op \in {"execute_job", "create_job"} THEN "ValueError" ELSE "HTTP404"

\* The try statements around that raise, innermost first.
TriesAround(op) ==
    CASE op = "execute_job" -> <<<<WrapScraping>>, <<ValueErrorTo400>>>>
      [] op = "create_job" -> <<<<WrapScraping>>>>
      [] op = "update_website_config" -> <<<<ReraiseHttp, Wrap500>>>>
      [] op = "delete_website_config" -> <<<<Wrap500>>>>
      [] op = "toggle_config_active" -> <<<<Wrap500>>>>
      [] OTHER -> <<>>

AnswerWhenMissing(op) == Answer(Surface(TriesAround(op), RaisedWhenMissing(op)))

\* get, update, delete or execute of a job id that matches no row: nothing
\* was changed in the session, the rollback of the handler undoes nothing.
JobMissing(p, op, j) ==
    /\ exec[p].pc = "idle"
    /\ j \notin DOMAIN jobs
    /\ exec' = [exec EXCEPT ![p] =
            [pc |-> "done", job |-> j, ret |-> AnswerWhenMissing(op),
             nfetch |-> 0, op |-> op]]
    /\ UNCHANGED <<jobs, results, configs, now, updates, req, page, seq, bulk, fetch>>

\* create_job with a website_config_id that matches no policy (job_service.py 27-33).
CreateJobMissingConfig(p, d) ==
    /\ exec[p].pc = "idle"
    /\ ScrapingJobCreateOk(d)
    /\ d.website_config_id # NoConfig
    /\ d.website_config_id \notin DOMAIN configs
    /\ exec' = [exec EXCEPT ![p] =
            [pc |-> "done", job |-> 0, ret |-> AnswerWhenMissing("create_job"),
             nfetch |-> 0, op |-> "create_job",
             website_config_id |-> d.website_config_id]]
    /\ UNCHANGED <<jobs, results, configs, now, updates, req, page, seq, bulk, fetch>>

\* get_job of a job that exists.
JobGet(p, j) ==
    /\ exec[p].pc = "idle"
    /\ j \in DOMAIN jobs
    /\ exec' = [exec EXCEPT ![p] =
            [pc |-> "done", job |-> j, ret |-> "ok", nfetch |-> 0, op |-> "get_job"]]
    /\ UNCHANGED <<jobs, results, configs, now, updates, req, page, seq, bulk, fetch>>

\* get, update, delete or toggle of a policy id that matches no row.
ConfigMissing(p, op, c) ==
    /\ req[p].pc = "idle"
    /\ c \notin DOMAIN configs
    /\ req' = [req EXCEPT ![p] =
            [pc |-> "done", kind |-> op, ret |-> AnswerWhenMissing(op), id |-> c]]
    /\ UNCHANGED <<jobs, results, configs, now, updates, exec, page, seq, bulk, fetch>>

\* get_website_config of a policy that exists.
ConfigGet(p, c) ==
    /\ req[p].pc = "idle"
    /\ c \in DOMAIN configs
    /\ req' = [req EXCEPT ![p] =
            [pc |-> "done", kind |-> "get_website_config", ret |-> "ok", id |-> c]]
    /\ UNCHANGED <<jobs, results, configs, now, updates, exec, page, seq, bulk, fetch>>

\* delete_website_config of a policy that exists: the row goes, and the jobs
\* of its relationship, which has no delete cascade, lose their reference.
ConfigDelete(p, c) ==
    /\ req[p].pc = "idle"
    /\ c \in DOMAIN configs
    /\ configs' = [o \in DOMAIN configs \ {c} |-> configs[o]]
    /\ jobs' = [j \in DOMAIN jobs |->
                  IF jobs[j].website_config_id = c
                  THEN [jobs[j] EXCEPT !.website_config_id = NoConfig]
                  ELSE jobs[j]]
    /\ req' = [req EXCEPT ![p] =
            [pc |-> "done", kind |-> "delete_website_config", ret |-> "ok", id |-> c]]
    /\ UNCHANGED <<results, now, updates, exec, page, seq, bulk, fetch>>

\* toggle_config_active of a policy that exists.
ConfigToggle(p, c) ==
    /\ req[p].pc = "idle"
    /\ c \in DOMAIN configs
    /\ configs' = [configs EXCEPT ![c].is_active = ~@]
    /\ req' = [req EXCEPT ![p] =
            [pc |-> "done", kind |-> "toggle_config_active", ret |-> "ok", id |-> c]]
    /\ UNCHANGED <<jobs, results, now, updates, exec, page, seq, bulk, fetch>>

\* ---------------------------------------------------------------- scraping engine
Strategies == {"requests", "selenium", "playwright"}

\* The if/elif chain of scrape (scraping_engine.py 32-39).
Dispatch(method) == IF method \in Strategies THEN method ELSE "unsupported"

\* scrape(url, method, wait_for_element=w): the n-th call of the engine.
Scrape(m, w) ==
    /\ fetch.pc = "idle"
    /\ fetch' = [pc |-> IF Dispatch(m) = "unsupported" THEN "done"
                        ELSE IF Dispatch(m) = "requests" THEN "requests"
                        ELSE "launch",
                 method |-> m, strategy |-> Dispatch(m), wait |-> w,
                 launched |-> 0, closed |-> 0,
                 ret |-> IF Dispatch(m) = "unsupported" THEN "raised" ELSE "none",
                 status_code |-> 0]
    /\ UNCHANGED <<jobs, results, configs, now, updates, exec, req, page, seq, bulk>>

\* session.get: a response of any status is returned as the result; only a
\* timeout or another exception raises (scraping_engine.py 58-81).
RequestsFetch(outcome) ==
    /\ fetch.pc = "requests"
    /\ fetch' = IF FetchRaises(outcome)
                THEN [fetch EXCEPT !.pc = "done", !.ret = "raised"]
                ELSE [fetch EXCEPT !.pc = "done", !.ret = "returned",
                                   !.status_code = outcome.status_code]
    /\ UNCHANGED <<jobs, results, configs, now, updates, exec, req, page, seq, bulk>>

\* The steps of a browser fetch after the launch, in order; the wait step is
\* taken when wait_for_element was given.
AfterStep(f) ==
    CASE f.pc = "context" -> "page"
      [] f.pc = "page" -> "goto"
      [] f.pc = "goto" -> IF f.wait THEN "wait" ELSE "extract"
      [] f.pc = "wait" -> "extract"
      [] f.pc = "extract" -> "finally"

\* webdriver.Chrome(options) inside the try, driver = None before it
\* (scraping_engine.py 103-105): a failed launch leaves nothing to quit.
SeleniumLaunch(ok) ==
    /\ fetch.pc = "launch"
    /\ fetch.strategy = "selenium"
    /\ fetch' = IF ok
                THEN [fetch EXCEPT !.pc = "goto", !.launched = @ + 1]
                ELSE [fetch EXCEPT !.pc = "done", !.ret = "raised"]
    /\ UNCHANGED <<jobs, results, configs, now, updates, exec, req, page, seq, bulk>>

\* driver.get, the wait, page_source and extraction, all inside the try.
SeleniumStep(ok) ==
    /\ fetch.pc \in {"goto", "wait", "extract"}
    /\ fetch.strategy = "selenium"
    /\ fetch' = IF ok
                THEN [fetch EXCEPT !.pc = AfterStep(fetch),
                        !.ret = IF AfterStep(fetch) = "finally" THEN "returned" ELSE @]
                ELSE [fetch EXCEPT !.pc = "finally", !.ret = "raised"]
    /\ UNCHANGED <<jobs, results, configs, now, updates, exec, req, page, seq, bulk>>

\* finally: if driver: driver.quit().
SeleniumFinally ==
    /\ fetch.pc = "finally"
    /\ fetch.strategy = "selenium"
    /\ fetch' = [fetch EXCEPT !.pc = "done", !.closed = @ + 1]
    /\ UNCHANGED <<jobs, results, configs, now, updates, exec, req, page, seq, bulk>>

\* p.chromium.launch, before the try (scraping_engine.py 148).
PlaywrightLaunch(ok) ==
    /\ fetch.pc = "launch"
    /\ fetch.strategy = "playwright"
    /\ fetch' = IF ok
                THEN [fetch EXCEPT !.pc = "context", !.launched = @ + 1]
                ELSE [fetch EXCEPT !.pc = "done", !.ret = "raised"]
    /\ UNCHANGED <<jobs, results, configs, now, updates, exec, req, page, seq, bulk>>

\* browser.new_context, after the launch and still before the try
\* (scraping_engine.py 149-152): its exception passes the finally clause by.
PlaywrightContext(ok) ==
    /\ fetch.pc = "context"
    /\ fetch.strategy = "playwright"
    /\ fetch' = IF ok
                THEN [fetch EXCEPT !.pc = "page"]
                ELSE [fetch EXCEPT !.pc = "done", !.ret = "raised"]
    /\ UNCHANGED <<jobs, results, configs, now, updates, exec, req, page, seq, bulk>>

\* new_page, goto, the wait, content and extraction, inside the try.
PlaywrightStep(ok) ==
    /\ fetch.pc \in {"page", "goto", "wait", "extract"}
    /\ fetch.strategy = "playwright"
    /\ fetch' = IF ok
                THEN [fetch EXCEPT !.pc = AfterStep(fetch),
                        !.ret = IF AfterStep(fetch) = "finally" THEN "returned" ELSE @]
                ELSE [fetch EXCEPT !.pc = "finally", !.ret = "raised"]
    /\ UNCHANGED <<jobs, results, configs, now, updates, exec, req, page, seq, bulk>>

\* finally: await browser.close().
PlaywrightFinally ==
    /\ fetch.pc = "finally"
    /\ fetch.strategy = "playwright"
    /\ fetch' = [fetch EXCEPT !.pc = "done", !.closed = @ + 1]
    /\ UNCHANGED <<jobs, results, configs, now, updates, exec, req, page, seq, bulk>>

\* scrape returns its result or raises WebsiteNotAccessibleException.
FetchReturn ==
    /\ fetch.pc = "done"
    /\ fetch' = IdleFetch
    /\ UNCHANGED <<jobs, results, configs, now, updates, exec, req, page, seq, bulk>>

\* ---------------------------------------------------------------- bulk processing
\* The config dict handed to process_bulk_urls: without or with a 'method' key.
BulkConfigs == [method : {Omitted, "requests"}]

\* ScrapingJobCreate(url=url, method=config.get('method', 'requests'), **config):
\* a 'method' key in config gives the keyword twice and the call raises.
DuplicateKeyword(config) == config.method # Omitted

BulkJobInput ==
    [max_retries |-> DefaultMaxRetries, is_recurring |-> FALSE,
     cron_expression |-> Omitted, website_config_id |-> NoConfig,
     method |-> "requests", headers |-> NoMsg, selectors |-> NoMsg,
     cookies |-> NoMsg, user_agent |-> NoMsg]

\* The task is handed n urls and a config.
BulkStart(n, c) ==
    /\ bulk.pc = "idle"
    /\ bulk' = [pc |-> "loop", total |-> n, i |-> 0, config |-> c,
                progress |-> <<>>, made |-> <<>>, ran |-> {}, state |-> "PENDING"]
    /\ UNCHANGED <<jobs, results, configs, now, updates, exec, req, page, seq, fetch>>

\* for i, url in enumerate(urls): update_state(PROGRESS, current i + 1, total).
BulkProgress ==
    /\ bulk.pc = "loop"
    /\ bulk.i < bulk.total
    /\ bulk' = [bulk EXCEPT !.pc = "create", !.state = "PROGRESS",
                    !.progress = Append(@, [current |-> bulk.i + 1,
                                            total |-> bulk.total])]
    /\ UNCHANGED <<jobs, results, configs, now, updates, exec, req, page, seq, fetch>>

\* The schema object is built and create_job is called; an exception leaves
\* the loop for the handler of the whole task (tasks.py 91-97).
BulkCreate ==
    /\ bulk.pc = "create"
    /\ IF DuplicateKeyword(bulk.config)
       THEN /\ bulk' = [bulk EXCEPT !.pc = "failed", !.state = "FAILURE"]
            /\ UNCHANGED <<jobs, seq>>
       ELSE /\ seq' = [seq EXCEPT !.jobs = @ + 1]
            /\ jobs' = [j \in DOMAIN jobs \cup {seq.jobs + 1} |->
                          IF j = seq.jobs + 1 THEN ScrapingJob(BulkJobInput)
                          ELSE jobs[j]]
            /\ bulk' = [bulk EXCEPT !.pc = "execute",
                                    !.made = Append(@, seq.jobs + 1)]
    /\ UNCHANGED <<results, configs, now, updates, exec, req, page, fetch>>

\* execute_job on the job just created, in the same session: it returns the
\* completed job, or records the failure and raises.
BulkExecute(ok) ==
    /\ bulk.pc = "execute"
    /\ LET j == bulk.made[Len(bulk.made)]
           mem == [jobs[j] EXCEPT !.status = "running", !.started_at = now]
       IN IF ok
          THEN /\ jobs' = [jobs EXCEPT ![j] = OnSuccessJob(mem, now)]
               /\ results' = results \cup {ScrapedData(j, now)}
               /\ seq' = [seq EXCEPT !.results = @ + 1]
               /\ bulk' = [bulk EXCEPT !.pc = "loop", !.i = @ + 1,
                                       !.ran = @ \cup {j}]
          ELSE /\ jobs' = [jobs EXCEPT ![j] = OnFailureJob(mem, now)]
               /\ bulk' = [bulk EXCEPT !.pc = "failed", !.state = "FAILURE",
                                       !.ran = @ \cup {j}]
               /\ UNCHANGED <<results, seq>>
    /\ UNCHANGED <<configs, now, updates, exec, req, page, fetch>>

\* The loop is over: the task returns its summary.
BulkFinish ==
    /\ bulk.pc = "loop"
    /\ bulk.i = bulk.total
    /\ bulk' = [bulk EXCEPT !.pc = "done", !.state = "SUCCESS"]
    /\ UNCHANGED <<jobs, results, configs, now, updates, exec, req, page, seq, fetch>>

\* ---------------------------------------------------------------- specification
NoJobs == [j \in {} |-> 0]

NoIds == [jobs |-> 0, results |-> 0]

OnePolicy == [c \in {1} |-> WebsiteConfig(1, 1)]

Init ==
    /\ jobs = NoJobs
    /\ results = {}
    /\ configs = OnePolicy
    /\ now = 1
    /\ updates = 0
    /\ exec = [p \in Procs |-> IdleExec]
    /\ req = [p \in Procs |-> IdleReq]
    /\ page = NoPage
    /\ seq = NoIds
    /\ bulk = IdleBulk
    /\ fetch = IdleFetch

\* No request is in flight.
Quiet ==
    /\ \A p \in Procs : exec[p].pc = "idle"
    /\ \A p \in Procs : req[p].pc = "idle"

\* Requests one after the other: a request starts when none is in flight,
\* and it does not matter which worker serves it.
FirstWorker == CHOOSE p \in Procs : \A q \in Procs : p <= q

Next ==
    \/ Quiet /\ \E d \in PlainJobInputs : CreateJob(d)
    \/ Quiet /\ \E j \in JobIds, u \in UpdateInputs : UpdateJob(j, u)
    \/ Quiet /\ \E j \in JobIds : ExecLoad(FirstWorker, j)
    \/ \E p \in Procs : ExecMarkRunning(p)
    \/ \E p \in Procs : ExecRefresh(p)
    \/ \E p \in Procs : ExecFetch(p)
    \/ \E p \in Procs : ExecSucceed(p)
    \/ \E p \in Procs : ExecFail(p)
    \/ Quiet /\ GetFailedJobsForRetry(FirstWorker)
    \/ \E p \in Procs : Return(p)
    \/ Tick

Spec == Init /\ [][Next]_vars

\* Requests of several workers interleaved at their database statements.
RaceNext ==
    \/ \E d \in PlainJobInputs : CreateJob(d)
    \/ \E p \in Procs, j \in JobIds : ExecLoad(p, j)
    \/ \E p \in Procs : ExecMarkRunning(p)
    \/ \E p \in Procs : ExecRefresh(p)
    \/ \E p \in Procs : ExecFetch(p)
    \/ \E p \in Procs : ExecSucceed(p)
    \/ \E p \in Procs : ExecFail(p)
    \/ \E p \in Procs : Return(p)

RaceSpec == Init /\ [][RaceNext]_vars

\* The website-policy endpoints, from an empty table, requests interleaved.
NoConfigs == [c \in {} |-> 0]

PolicyInit ==
    /\ jobs = NoJobs
    /\ results = {}
    /\ configs = NoConfigs
    /\ now = 1
    /\ updates = 0
    /\ exec = [p \in Procs |-> IdleExec]
    /\ req = [p \in Procs |-> IdleReq]
    /\ page = NoPage
    /\ seq = NoIds
    /\ bulk = IdleBulk
    /\ fetch = IdleFetch

PolicyNext ==
    \/ \E p \in Procs, n \in Names, d \in Domains : ConfigCreateCheck(p, n, d)
    \/ \E p \in Procs : ConfigCreateCommit(p)
    \/ \E p \in Procs, c \in ConfigIds, n \in Names \cup {NotGiven},
          d \in Domains \cup {NotGiven} : ConfigUpdateLoad(p, c, n, d, NoFields)
    \/ \E p \in Procs : ConfigUpdateCheckName(p)
    \/ \E p \in Procs : ConfigUpdateCheckDomain(p)
    \/ \E p \in Procs : ConfigUpdateCommit(p)
    \/ \E p \in Procs : ConfigReturn(p)

PolicySpec == PolicyInit /\ [][PolicyNext]_vars

\* Job intake: create and update requests over every request the schema is
\* given, no execution.
IntakeNext ==
    \/ \E d \in JobInputs : CreateJob(d)
    \/ \E j \in JobIds, u \in UpdateInputs : UpdateJob(j, u)

IntakeSpec == Init /\ [][IntakeNext]_vars

\* Jobs with fetch parameters, linked to a policy whose defaults are edited
\* between the requests; requests one after the other.
ResolveNext ==
    \/ Quiet /\ \E d \in ParamJobInputs : CreateJob(d)
    \/ Quiet /\ \E c \in ConfigIds, u \in DefaultUpdates :
            ConfigUpdateLoad(FirstWorker, c, NotGiven, NotGiven, u)
    \/ \E p \in Procs : ConfigUpdateCheckName(p)
    \/ \E p \in Procs : ConfigUpdateCheckDomain(p)
    \/ \E p \in Procs : ConfigUpdateCommit(p)
    \/ \E p \in Procs : ConfigReturn(p)
    \/ Quiet /\ \E j \in JobIds : ExecLoad(FirstWorker, j)
    \/ \E p \in Procs : ExecMarkRunning(p)
    \/ \E p \in Procs : ExecRefresh(p)
    \/ \E p \in Procs : ExecFetch(p)
    \/ \E p \in Procs : ExecSucceed(p)
    \/ \E p \in Procs : ExecFail(p)
    \/ \E p \in Procs : Return(p)

ResolveSpec == Init /\ [][ResolveNext]_vars

\* Upkeep: jobs are created and executed one after the other, jobs are
\* deleted, policies are tested, and the beat worker runs the retention sweep
\* at any moment as time passes.
KeptJobInputs == {d \in PlainJobInputs : d.max_retries = DefaultMaxRetries}

BeatWorker == CHOOSE p \in Procs : \A q \in Procs : q <= p

UpkeepNext ==
    \/ Quiet /\ \E d \in KeptJobInputs : CreateJobWithin(MaxKept, d)
    \/ Quiet /\ \E j \in 1..MaxKept : ExecLoadWithin(MaxKept, FirstWorker, j)
    \/ \E p \in Procs : ExecMarkRunning(p)
    \/ \E p \in Procs : ExecRefresh(p)
    \/ \E p \in Procs : ExecFetch(p)
    \/ \E p \in Procs : ExecSucceed(p)
    \/ \E p \in Procs : ExecFail(p)
    \/ \E p \in Procs : Return(p)
    \/ Quiet /\ \E j \in 1..MaxKept : DeleteJob(FirstWorker, j)
    \/ Quiet /\ \E c \in ConfigIds : ConfigTestLoad(FirstWorker, c)
    \/ \E p \in Procs : ConfigTestScrape(p)
    \/ \E p \in Procs : ConfigReturn(p)
    \/ CleanupOldData(BeatWorker)
    \/ Later

UpkeepSpec == Init /\ [][UpkeepNext]_vars

\* One bulk task over up to MaxUrls urls, as time passes.
BulkNext ==
    \/ \E n \in 0..MaxUrls, c \in BulkConfigs : BulkStart(n, c)
    \/ BulkProgress
    \/ BulkCreate
    \/ \E ok \in BOOLEAN : BulkExecute(ok)
    \/ BulkFinish
    \/ Tick

BulkSpec == Init /\ [][BulkNext]_vars

\* Every operation that names a job or a policy, on ids that exist and on
\* ids that do not; requests one after the other.
ReferNext ==
    \/ Quiet /\ \E d \in KeptJobInputs : CreateJob(d)
    \/ Quiet /\ \E d \in KeptJobInputs : CreateJobMissingConfig(FirstWorker, d)
    \/ Quiet /\ \E j \in JobIds : JobGet(FirstWorker, j)
    \/ Quiet /\ \E j \in JobIds, op \in JobOps \ {"create_job"} :
            JobMissing(FirstWorker, op, j)
    \/ Quiet /\ \E j \in JobIds, u \in UpdateInputs : UpdateJob(j, u)
    \/ Quiet /\ \E j \in JobIds : j \in DOMAIN jobs /\ DeleteJob(FirstWorker, j)
    \/ Quiet /\ \E j \in JobIds : ExecLoad(FirstWorker, j)
    \/ \E p \in Procs : ExecMarkRunning(p)
    \/ \E p \in Procs : ExecRefresh(p)
    \/ \E p \in Procs : ExecFetch(p)
    \/ \E p \in Procs : ExecSucceed(p)
    \/ \E p \in Procs : ExecFail(p)
    \/ \E p \in Procs : Return(p)
    \/ Quiet /\ \E c \in ConfigIds : ConfigGet(FirstWorker, c)
    \/ Quiet /\ \E c \in ConfigIds, op \in ConfigOps : ConfigMissing(FirstWorker, op, c)
    \/ Quiet /\ \E c \in ConfigIds : ConfigDelete(FirstWorker, c)
    \/ Quiet /\ \E c \in ConfigIds : ConfigToggle(FirstWorker, c)
    \/ \E p \in Procs : ConfigReturn(p)

ReferSpec == Init /\ [][ReferNext]_vars

\* Executions whose worker keeps running: every step of a call in flight is
\* eventually taken, and the fetch returns or raises.
ExecStep(p) ==
    \/ ExecMarkRunning(p)
    \/ ExecRefresh(p)
    \/ ExecFetch(p)
    \/ ExecSucceed(p)
    \/ ExecFail(p)
    \/ ExecRecordError(p)
    \/ Return(p)

LiveNext ==
    \/ Quiet /\ \E d \in KeptJobInputs : CreateJobWithin(MaxKept, d)
    \/ Quiet /\ \E j \in 1..MaxKept : ExecLoadWithin(MaxKept, FirstWorker, j)
    \/ \E p \in Procs : ExecStep(p)
    \/ Tick

LiveSpec ==
    Init /\ [][LiveNext]_vars /\ \A p \in Procs : WF_vars(ExecStep(p))

\* Jobs linked to one policy, executed by several workers at once, each job
\* by one worker.
SharedJobInputs == {d \in KeptJobInputs : d.website_config_id = 1}

ShareNext ==
    \/ \E d \in SharedJobInputs : CreateJobWithin(MaxKept, d)
    \/ \E p \in Procs, j \in 1..MaxKept :
            /\ \A q \in Procs : exec[q].job # j
            /\ ExecLoadWithin(MaxKept, p, j)
    \/ \E p \in Procs : ExecMarkRunning(p)
    \/ \E p \in Procs : ExecRefresh(p)
    \/ \E p \in Procs : ExecFetch(p)
    \/ \E p \in Procs : ExecSucceed(p)
    \/ \E p \in Procs : ExecFail(p)
    \/ \E p \in Procs : Return(p)

ShareSpec == Init /\ [][ShareNext]_vars

\* Passive-HTTP jobs executed one after the other, the request answered
\* with any status or failing in transport.
HttpNext ==
    \/ Quiet /\ \E d \in KeptJobInputs : CreateJobWithin(MaxKept, d)
    \/ Quiet /\ \E j \in 1..MaxKept : ExecLoadWithin(MaxKept, FirstWorker, j)
    \/ \E p \in Procs : ExecMarkRunning(p)
    \/ \E p \in Procs : ExecRefresh(p)
    \/ \E p \in Procs : ExecFetch(p)
    \/ \E p \in Procs, o \in FetchOutcomes : ExecResponse(p, o)
    \/ \E p \in Procs : ExecRecord(p)
    \/ \E p \in Procs : Return(p)
    \/ Tick

HttpSpec == Init /\ [][HttpNext]_vars

\* The engine called with every accepted method, with and without a wait.
EngineNext ==
    \/ \E m \in Methods, w \in BOOLEAN : Scrape(m, w)
    \/ \E o \in FetchOutcomes : RequestsFetch(o)
    \/ \E ok \in BOOLEAN : SeleniumLaunch(ok)
    \/ \E ok \in BOOLEAN : SeleniumStep(ok)
    \/ SeleniumFinally
    \/ \E ok \in BOOLEAN : PlaywrightLaunch(ok)
    \/ \E ok \in BOOLEAN : PlaywrightContext(ok)
    \/ \E ok \in BOOLEAN : PlaywrightStep(ok)
    \/ PlaywrightFinally
    \/ FetchReturn
    \/ Tick

EngineSpec == Init /\ [][EngineNext]_vars

\* The content extractor applied to every document and selector map.
ExtractInit ==
    /\ jobs = NoJobs
    /\ results = {}
    /\ configs = NoConfigs
    /\ now = 1
    /\ updates = 0
    /\ exec = [p \in Procs |-> IdleExec]
    /\ req = [p \in Procs |-> IdleReq]
    /\ page \in [pc : {"fetched"}, doc : Docs, selectors : SelectorMaps]
    /\ seq = NoIds
    /\ bulk = IdleBulk
    /\ fetch = IdleFetch

ExtractNext == ExtractContent

ExtractSpec == ExtractInit /\ [][ExtractNext]_vars

\* ---------------------------------------------------------------- properties
Terminal == {"completed", "failed", "cancelled"}

ResultsOf(rs, j) == {r \in rs : r.job_id = j}

\* The step in which worker p's execute_job call is decided at the status check.
Checked(p) ==
    /\ exec[p].pc = "idle"
    /\ exec'[p].pc \in {"loaded", "done"}
    /\ exec'[p].ret # "list"

\* C1: execute_job starts only for a job whose persisted status is pending;
\* for any other status it fails with the invalid-state error and jobs,
\* results and policies are left exactly as they were.
C1_ExecuteOnlyFromPending ==
    [][\A p \in Procs :
        Checked(p) =>
            IF jobs[exec'[p].job].status = "pending"
            THEN exec'[p].pc = "loaded"
            ELSE /\ exec'[p].pc = "done"
                 /\ exec'[p].ret = "invalid_state"
                 /\ dbvars' = dbvars]_vars

C1_Witness ==
    \E p \in Procs :
        /\ exec[p].pc = "done"
        /\ exec[p].ret = "invalid_state"
        /\ jobs[exec[p].job].status = "failed"
        /\ jobs[exec[p].job].retry_count = 1

\* The step in which worker p's execute_job call records its outcome.
Finished(p, ret) ==
    /\ exec[p].pc = "fetching"
    /\ exec'[p].pc = "done"
    /\ exec'[p].ret = ret

\* C2: a failed execution adds exactly 1 to the job's retry_count and, when
\* the job is linked to a policy, exactly 1 to that policy's failure_count;
\* a successful one leaves retry_count alone, sets the linked policy's
\* failure_count to 0 and stamps its last-success time with the current time.
C2_OutcomeCounters ==
    [][\A p \in Procs :
        LET j == exec[p].job
            c == jobs[j].website_config_id
        IN /\ Finished(p, "exec_failed") =>
                /\ jobs'[j].retry_count = jobs[j].retry_count + 1
                /\ c \in DOMAIN configs =>
                      configs'[c].failure_count = configs[c].failure_count + 1
           /\ Finished(p, "ok") =>
                /\ jobs'[j].retry_count = jobs[j].retry_count
                /\ c \in DOMAIN configs =>
                      /\ configs'[c].failure_count = 0
                      /\ configs'[c].last_successful_scrape = now]_vars

C2_Witness ==
    \E p \in Procs :
        /\ exec[p].pc = "done"
        /\ exec[p].ret = "ok"
        /\ jobs[exec[p].job].website_config_id = 1
        /\ jobs[exec[p].job].retry_count = 1
        /\ configs[1].failure_count = 0
        /\ configs[1].last_successful_scrape = now

\* C3: a job's status moves only pending -> running -> completed or failed,
\* or into cancelled by an update request; completed, failed and cancelled
\* are final and no job returns to pending.
C3_MonotonicStatus ==
    [][\A j \in DOMAIN jobs :
        LET a == jobs[j].status
            b == jobs'[j].status
        IN a # b =>
            \/ <<a, b>> \in {<<"pending", "running">>, <<"running", "completed">>,
                             <<"running", "failed">>}
            \/ b = "cancelled" /\ a \notin Terminal /\ updates' # updates]_vars

\* C4: however execute_job calls on one pending job interleave, its status
\* goes pending -> running -> one of completed or failed, at most one call
\* fetches and at most one result is stored for the job.
C4_OneExecutionPerJob ==
    [][\A j \in DOMAIN jobs :
        LET a == jobs[j].status
            b == jobs'[j].status
        IN /\ a # b => <<a, b>> \in {<<"pending", "running">>,
                                     <<"running", "completed">>,
                                     <<"running", "failed">>}
           /\ Cardinality({p \in Procs : exec'[p].job = j /\ exec'[p].nfetch > 0}) <= 1
           /\ Cardinality(ResultsOf(results', j)) <= 1]_vars

\* C5: get_failed_jobs_for_retry answers with exactly the jobs that are failed
\* and have retry_count strictly below max_retries.
C5_RetryListExact ==
    \A p \in Procs :
        exec[p].pc = "done" /\ exec[p].ret = "list" =>
            \A j \in DOMAIN jobs :
                j \in exec[p].ids <=>
                    (jobs[j].status = "failed"
                        /\ jobs[j].retry_count + 1 <= jobs[j].max_retries)

C5_Witness ==
    \E p \in Procs :
        /\ exec[p].pc = "done"
        /\ exec[p].ret = "list"
        /\ \E j \in DOMAIN jobs :
            /\ jobs[j].status = "failed"
            /\ jobs[j].retry_count = 1
            /\ jobs[j].max_retries = 1
            /\ j \notin exec[p].ids

\* C6: one execute_job call fetches at most once, a failed execution ends the
\* call with the job failed, and a failed job leaves that status only by an
\* update request, also while retry_count < max_retries.
C6_NoAutomaticRetry ==
    [][/\ \A p \in Procs : exec'[p].nfetch <= 1
       /\ \A p \in Procs :
            exec[p].pc = "fetching" /\ jobs'[exec[p].job].status = "failed" =>
                exec'[p].pc = "done" /\ exec'[p].ret = "exec_failed"
       /\ \A j \in DOMAIN jobs :
            jobs[j].status = "failed" /\ jobs'[j].status # "failed" =>
                updates' = updates + 1]_vars

C6_Witness ==
    \E p \in Procs :
        /\ exec[p].pc = "done"
        /\ exec[p].ret = "exec_failed"
        /\ exec[p].nfetch = 1
        /\ jobs[exec[p].job].status = "failed"
        /\ jobs[exec[p].job].retry_count < jobs[exec[p].job].max_retries

\* C10: a successful execution stores exactly one new result owned by the
\* job and leaves the job completed, with a completion time, a result count
\* of 1 and no error message.
C10_SuccessOutcome ==
    [][\A p \in Procs :
        Finished(p, "ok") =>
            LET j == exec[p].job
            IN /\ results \subseteq results'
               /\ Cardinality(results' \ results) = 1
               /\ \A r \in results' \ results : r.job_id = j
               /\ jobs'[j].status = "completed"
               /\ jobs'[j].completed_at = now
               /\ jobs'[j].completed_at # NoTime
               /\ jobs'[j].scraped_data_count = 1
               /\ jobs'[j].error_message = NoMsg]_vars

C10_Witness ==
    \E p \in Procs :
        /\ exec[p].pc = "done"
        /\ exec[p].ret = "ok"
        /\ jobs[exec[p].job].status = "completed"
        /\ jobs[exec[p].job].retry_count = 1
        /\ jobs[exec[p].job].error_message = NoMsg
        /\ Cardinality(ResultsOf(results, exec[p].job)) = 1

\* No two stored policies share a name, and no two share a domain.
UniquePolicies ==
    \A a, b \in DOMAIN configs :
        a # b => configs[a].name # configs[b].name
                 /\ configs[a].domain # configs[b].domain

\* C7: a create whose name or domain is in use (also when the name is one
\* policy's and the domain another's), and an update into a name or domain of
\* a different policy, fail with the conflict error and write nothing.
C7_CollisionIsConflict ==
    [][\A p \in Procs :
        LET r == req[p]
            refused == /\ req'[p].pc = "done"
                       /\ req'[p].ret = "conflict"
                       /\ configs' = configs
            UsedByOther(f, v) ==
                v # NotGiven /\ \E o \in DOMAIN configs : o # r.id /\ configs[o][f] = v
        IN /\ (r.pc = "idle" /\ req'[p].pc # "idle" /\ req'[p].kind = "create"
                /\ UniquePolicies
                /\ SameNameOrDomain(req'[p].name, req'[p].domain) # {})
                    => refused
           /\ (r.pc = "check_name" /\ req'[p] # r /\ r.snap = configs[r.id]
                /\ UsedByOther("name", r.name))
                    => refused
           /\ (r.pc = "check_domain" /\ req'[p] # r /\ r.snap = configs[r.id]
                /\ UniquePolicies /\ UsedByOther("domain", r.domain))
                    => refused]_vars

\* C8: in every reachable state no two stored policies share a name and no
\* two share a domain.
C8_NameAndDomainUnique == UniquePolicies

\* C9: every persisted job with is_recurring = true has a non-empty
\* cron_expression (a recurring request without one is rejected).
C9_RecurringHasCron ==
    \A j \in DOMAIN jobs :
        jobs[j].is_recurring => jobs[j].cron_expression \notin {NoMsg, ""}

\* C11: when the fetch or the extraction fails, the job is persisted failed
\* with a completion time and the error message, no result is stored for that
\* execution, and the failure reaches the caller only with that state
\* persisted (never while the persisted status is still running).
C11_FailurePersistedBeforeRaise ==
    [][\A p \in Procs :
        /\ Finished(p, "exec_failed") =>
                LET j == exec[p].job
                IN /\ jobs'[j].status = "failed"
                   /\ jobs'[j].completed_at = now
                   /\ jobs'[j].error_message = "error"
                   /\ results' = results
        /\ (exec'[p].pc = "done" /\ exec'[p].ret = "exec_failed") =>
                jobs'[exec'[p].job].status = "failed"]_vars

C11_Witness ==
    \E p \in Procs :
        /\ exec[p].pc = "done"
        /\ exec[p].ret = "exec_failed"
        /\ jobs[exec[p].job].status = "failed"
        /\ jobs[exec[p].job].error_message = "error"
        /\ jobs[exec[p].job].completed_at = now
        /\ ResultsOf(results, exec[p].job) = {}

\* The step in which worker p's execute_job call hands the fetch to the engine.
Fetches(p) ==
    /\ exec[p].pc = "refreshed"
    /\ exec'[p].pc = "fetching"

\* C12: the fetch parameters are resolved when the job is executed: each of
\* headers, selectors, cookies and user-agent that is unset on the job is
\* passed as the linked policy's current default, and a value set on the job
\* is passed as it is.
C12_DefaultsResolvedAtExecution ==
    [][\A p \in Procs :
        Fetches(p) =>
            LET job == jobs[exec[p].job]
                cfg == configs[job.website_config_id]
                call == exec'[p].call
                Resolved(own, default, passed) ==
                    IF own # NoMsg THEN passed = own
                    ELSE default # NoMsg => passed = default
            IN job.website_config_id \in DOMAIN configs =>
                /\ Resolved(job.headers, cfg.default_headers, call.headers)
                /\ Resolved(job.selectors, cfg.default_selectors, call.selectors)
                /\ Resolved(job.cookies, cfg.default_cookies, call.cookies)
                /\ IF job.user_agent # NoMsg THEN call.user_agent = job.user_agent
                   ELSE cfg.custom_user_agents # <<>> =>
                            call.user_agent = cfg.custom_user_agents[1]]_vars

\* C13: the fetch uses the policy's default method when the linked policy
\* requires JavaScript and the job's method is requests, and the job's own
\* method in every other case.
C13_MethodOverride ==
    [][\A p \in Procs :
        Fetches(p) =>
            LET job == jobs[exec[p].job]
                cfg == LoadedConfig(job)
                call == exec'[p].call
            IN IF Linked(job) /\ cfg.requires_js /\ job.method = "requests"
               THEN call.method = cfg.default_method
               ELSE call.method = job.method]_vars

\* The extractor has run on the page.
Extracted == page.pc = "extracted"

\* C14: image_count is the number of <img> elements and link_count the number
\* of <a href> elements of the full input document, whatever the truncation
\* of the lists and whichever main-content path was taken.
C14_CountsAreDocumentTotals ==
    Extracted =>
        /\ page.out.image_count = Len(find_all(page.doc, "img"))
        /\ page.out.link_count = Len(find_all(page.doc, "a"))

\* C15: extracted_links is the first 20 (or all) <a href> values of the
\* document that do not start with '#', in order and resolved against the
\* url; extracted_images is the first 10 (or all) <img src> values.
C15_FirstLinksAndImages ==
    Extracted =>
        /\ page.out.extracted_links =
                Urls(Url, FirstN(SelectSeq(find_all(page.doc, "a"),
                                           LAMBDA x : x.val # "#top"), LinkLimit))
        /\ page.out.extracted_images =
                Urls(Url, FirstN(SelectSeq(find_all(page.doc, "img"),
                                           LAMBDA x : x.val # ""), ImageLimit))

\* C16: main_content is the text of the first element, in the priority order
\* of the selectors, whose text is non-empty (an empty match is skipped and
\* the next selector tried); otherwise the body text without the script,
\* style, nav, header and footer subtrees.
C16_FirstNonEmptyContent ==
    Extracted =>
        LET texts == [i \in DOMAIN content_selectors |->
                        IF select(page.doc, content_selectors[i]) # <<>>
                        THEN get_text(select(page.doc, content_selectors[i])[1])
                        ELSE <<>>]
            found == {i \in DOMAIN texts : texts[i] # <<>>}
        IN page.out.content =
              IF found # {}
              THEN texts[CHOOSE i \in found : \A k \in found : i <= k]
              ELSE body_text(decompose(page.doc))

\* C17: structured_data applies each selector to the full input document: one
\* match gives its text, several give the sequence of their texts, none gives
\* no key, and no key at all gives null.
C17_StructuredDataOverDocument ==
    Extracted => page.out.structured_data = StructuredData(page.doc, page.selectors)

\* A step of worker p's test request on a policy.
TestStep(p) ==
    /\ req'[p] # req[p]
    /\ IF req'[p].pc = "idle" THEN req[p].kind = "test" ELSE req'[p].kind = "test"

\* C18: testing a policy makes one fetch and changes no persisted state,
\* whether the fetch succeeds or fails: no job, no result, and the policy's
\* failure_count, last-success time and other fields stay as they were.
C18_TestChangesNothing ==
    [][\A p \in Procs :
        TestStep(p) =>
            /\ dbvars' = dbvars
            /\ seq' = seq
            /\ (req'[p].pc = "done" /\ req'[p].ret \in {"test_success", "test_error"})
                    => req'[p].nfetch = 1]_vars

C18_Witness ==
    \E p \in Procs :
        /\ req[p].pc = "done"
        /\ req[p].ret = "test_error"
        /\ configs[req[p].id].failure_count = 1
        /\ configs[req[p].id].last_successful_scrape # NoTime
        /\ results # {}

\* The step in which worker p's delete_job call is answered.
Deletes(p) ==
    /\ exec[p].pc = "idle"
    /\ exec'[p].pc = "done"
    /\ exec'[p].ret \in {"deleted", "not_found"}

\* C19: after delete_job succeeds neither the job nor any of its results
\* remains, and every other job and its results are unchanged; for an id
\* that does not exist it reports not-found and changes nothing.
C19_DeleteCascades ==
    [][\A p \in Procs :
        Deletes(p) =>
            LET j == exec'[p].job
            IN IF j \in DOMAIN jobs
               THEN /\ exec'[p].ret = "deleted"
                    /\ DOMAIN jobs' = DOMAIN jobs \ {j}
                    /\ ResultsOf(results', j) = {}
                    /\ \A k \in DOMAIN jobs' :
                          /\ jobs'[k] = jobs[k]
                          /\ ResultsOf(results', k) = ResultsOf(results, k)
                    /\ results' \subseteq results
                    /\ configs' = configs
               ELSE /\ exec'[p].ret = "not_found"
                    /\ dbvars' = dbvars]_vars

C19_Witness ==
    \E p \in Procs :
        /\ exec[p].pc = "done"
        /\ exec[p].ret = "deleted"
        /\ exec[p].job \notin DOMAIN jobs
        /\ seq.results = 2
        /\ Cardinality(results) = 1
        /\ \E r \in results : r.job_id \in DOMAIN jobs

\* The step in which worker p's retention sweep ends.
Sweeps(p) ==
    /\ exec[p].pc = "idle"
    /\ exec'[p].pc = "done"
    /\ exec'[p].ret \in {"cleaned", "cleanup_failed"}

BulkEnded == bulk.pc \in {"done", "failed"}

\* C21: a bulk task over N urls creates and executes exactly one job per url
\* for all N urls, with progress reports current = 1..N and total = N; a
\* failure on one url does not keep the remaining urls from being processed.
C21_BulkProcessesEveryUrl ==
    BulkEnded =>
        /\ Len(bulk.made) = bulk.total
        /\ bulk.ran = {bulk.made[k] : k \in 1..Len(bulk.made)}
        /\ Cardinality(bulk.ran) = bulk.total
        /\ bulk.progress = [k \in 1..bulk.total |->
                                [current |-> k, total |-> bulk.total]]

\* The scrape call has returned or raised.
FetchEnded == fetch.pc = "done"

\* C22: for the selenium and playwright strategies, every browser instance
\* launched during a fetch has been explicitly torn down (quit / close) when
\* the fetch call returns or raises, on the success path and on every error
\* path.
C22_BrowserTornDown ==
    (FetchEnded /\ fetch.strategy \in {"selenium", "playwright"})
        => fetch.closed = fetch.launched

\* C27: every method value accepted at creation of a job or a policy is
\* dispatched by the engine to one of exactly three fetch strategies; the
\* dispatch of an accepted value never fails as unsupported.
C27_AcceptedMethodsDispatch ==
    fetch.pc # "idle" =>
        /\ fetch.method \in Methods
        /\ fetch.strategy \in Strategies

\* A request of worker p on a job, or for a job linked to a policy, that
\* does not exist is answered in this step.
JobReferenceMissing(p) ==
    /\ exec[p].pc = "idle"
    /\ exec'[p].pc = "done"
    /\ "op" \in DOMAIN exec'[p]
    /\ IF exec'[p].op = "create_job"
       THEN exec'[p].website_config_id \notin DOMAIN configs
       ELSE exec'[p].job \notin DOMAIN jobs

\* A request of worker p on a policy that does not exist is answered in this step.
ConfigReferenceMissing(p) ==
    /\ req[p].pc = "idle"
    /\ req'[p].pc = "done"
    /\ req'[p].id \notin DOMAIN configs

\* C23: an operation that names a job or policy that does not exist is
\* answered with the not-found error and has no side effects: get, update,
\* delete and toggle-active of a policy, get, update, delete and execute of a
\* job, and creating a job with a website_config_id that matches no policy.
C23_MissingIsNotFound ==
    [][\A p \in Procs :
        /\ JobReferenceMissing(p) =>
                exec'[p].ret = "not_found" /\ dbvars' = dbvars /\ seq' = seq
        /\ ConfigReferenceMissing(p) =>
                req'[p].ret = "not_found" /\ dbvars' = dbvars /\ seq' = seq]_vars

\* C24: every job whose persisted status is running eventually has the
\* persisted status completed or failed, whatever way its execution ends.
C24_RunningEnds ==
    \A j \in 1..MaxKept :
        (j \in DOMAIN jobs /\ jobs[j].status = "running")
            ~> (j \in DOMAIN jobs /\ jobs[j].status \in {"completed", "failed"})

\* C25: whenever a job's persisted status is running its persisted start
\* time is set: both are persisted together before the fetch begins.
C25_RunningHasStartTime ==
    \A j \in DOMAIN jobs :
        jobs[j].status = "running" => jobs[j].started_at # NoTime

\* The step in which worker p's execution of a linked job records its outcome.
Records(p) ==
    /\ exec[p].pc = "fetching"
    /\ exec'[p].pc = "done"
    /\ Linked(exec[p].mem)

\* C26: when jobs linked to one policy are executed concurrently, every
\* failure raises the policy's persisted failure_count by exactly one (k
\* failures without a success in between leave it k higher) and every
\* success leaves it at 0.
C26_NoLostIncrement ==
    [][\A p \in Procs :
        Records(p) =>
            LET c == exec[p].mem.website_config_id
            IN IF exec'[p].ret = "ok"
               THEN configs'[c].failure_count = 0
               ELSE configs'[c].failure_count = configs[c].failure_count + 1]_vars

\* The step in which worker p's execution goes on from a request that was
\* answered with a response, whatever its status.
Answered(p) ==
    /\ exec[p].pc = "fetching"
    /\ "outcome" \in DOMAIN exec[p]
    /\ ~exec[p].outcome.raises
    /\ exec'[p].pc = "done"

\* C28: the outcome of a job depends on whether the fetch raises, not on the
\* HTTP status: a passive-HTTP fetch answered 4xx or 5xx without a transport
\* error completes the job, stores one result with that status code and
\* resets the linked policy's failure_count to 0.
C28_StatusDoesNotFail ==
    [][\A p \in Procs :
        Answered(p) =>
            LET j == exec[p].job
                c == exec[p].mem.website_config_id
            IN /\ exec'[p].ret = "ok"
               /\ jobs'[j].status = "completed"
               /\ \E r \in results' :
                     /\ results' = results \cup {r}
                     /\ r \notin results
                     /\ r.job_id = j
                     /\ r.status_code = exec[p].outcome.status_code
               /\ c \in DOMAIN configs => configs'[c].failure_count = 0]_vars

C28_Witness ==
    \E p \in Procs :
        /\ exec[p].pc = "done"
        /\ exec[p].ret = "ok"
        /\ jobs[exec[p].job].status = "completed"
        /\ jobs[exec[p].job].website_config_id = 1
        /\ configs[1].failure_count = 0
        /\ \E r \in results : r.job_id = exec[p].job /\ r.status_code >= 400
        /\ \E k \in DOMAIN jobs :
              jobs[k].status = "failed" /\ jobs[k].website_config_id = 1

\* The execute_job calls that have fetched for job j and not yet returned.
FetchedFor(j) == {p \in Procs : exec[p].job = j /\ exec[p].nfetch > 0}

\* C29: retry_count is changed only by a failed execution, and, no update
\* resetting the status to pending, a job is executed at most once (one
\* fetch, at most one result) and its retry_count never exceeds 1.
C29_ExecutedAtMostOnce ==
    [][\A j \in DOMAIN jobs \cap DOMAIN jobs' :
        /\ jobs'[j].retry_count # jobs[j].retry_count =>
              /\ jobs'[j].status = "failed"
              /\ \E p \in Procs :
                    /\ exec[p].pc = "fetching"
                    /\ exec[p].job = j
                    /\ exec'[p].ret = "exec_failed"
        /\ jobs'[j].retry_count <= 1
        /\ Cardinality(FetchedFor(j)') <= 1
        /\ Cardinality(ResultsOf(results', j)) <= 1]_vars

\* C30: in every reachable state, after any sequence of job creations,
\* executions, job deletions and retention sweeps, every stored result is
\* owned by a job that still exists.
C30_ResultsOwned ==
    \A r \in results : r.job_id \in DOMAIN jobs

C30_Witness ==
    /\ results # {}
    /\ \E p \in Procs :
          /\ exec[p].pc = "done"
          /\ exec[p].ret = "cleaned"
          /\ exec[p].swept_jobs # {}
          /\ \E r \in exec[p].swept_results : r.job_id \in exec[p].swept_jobs
    /\ seq.jobs > Cardinality(DOMAIN jobs)

====
